---- MODULE Spec2Model ----
(***************************************************************************)
(* Mission-control engine of the drone delivery backend                    *)
(* (src/backend/main.py) and the event fan-out of the orders service       *)
(* (src/backend-orders/events.py).                                         *)
(*                                                                         *)
(* Time is counted in whole seconds: a time.sleep(n) advances the caller's *)
(* timers by n. The statements between two sleeps take no time or a        *)
(* fraction of a second: a comparison of the clock with a whole number of  *)
(* seconds takes the input late, which tells whether a fraction has passed.*)
(* Altitudes are counted in units of 0.05 m and planar distances in units  *)
(* of 5e-7 degrees, so that every threshold of the code is an integer.     *)
(* Every read of the vehicle (mode, armed, altitude, position) is an       *)
(* input: the flight controller may report any value at any read.          *)
(***************************************************************************)
EXTENDS Integers, Sequences, FiniteSets, TLC

\* ------------------------------------------------------------ bounds
MaxMissions == 2          \* launches accepted in one run of FleetSpec
MaxFlights == 1           \* launches accepted in one run of Spec
MaxLinks == 2             \* DroneDelivery objects constructed in one run
MaxSockets == 2           \* WebSocket clients accepted in one run
MaxBroadcasts == 2        \* calls of broadcast() in one run

\* ------------------------------------------------- program constants
ARM_TIMEOUT_S == 45       \* main.py:248
TAKEOFF_ALT == 380        \* main.py:259,466  20 m * 0.95 = 19 m
LANDING_ALT == 22         \* main.py:368      final_alt 1 m * 1.1
NEAR_GROUND_ALT == 6      \* main.py:410      0.3 m
DESCENT_MARGIN == 1       \* main.py:372      0.05 m
PROXIMITY == 100          \* main.py:340,534  0.00005 degrees
PROGRESS_EPS == 1         \* main.py:329,522  5e-7 degrees
REISSUE_AFTER_S == 3      \* main.py:330,373,523
MODE_RESET_WAIT_S == 5    \* main.py:315,509
NO_ALT == 999             \* main.py:404,407

\* ------------------------------------------------------------ domains
DroneIds == {"D1", "D2"}
\* Missions of different drones share no link, lock or row: the launches
\* followed here are those for the drones of MissionDrones.
MissionDrones == {"D1"}
Blocks == {"A", "B", "C"}                      \* BLOCK_COORDINATES
RequestBlocks == {"A", "Z"}                    \* blocks a request may name
Missions == 1..MaxMissions                     \* Order.id of the launches
Links == 1..MaxLinks                           \* DroneDelivery objects
Sockets == 1..MaxSockets                          \* WebSocket objects
Broadcasts == 1..MaxBroadcasts                    \* calls of broadcast()
NoLink == 0
Free == 0
None == -1
Modes == {"GUIDED", "LAND", "RTL"}
\* altitudes the vehicle may report: around each threshold of the code
AltReadings == {5, 6, 22, 23, 24, 379, 380}
\* altitudes reported during the touchdown, with no reading (None) and the
\* default the code takes when the read raises
LandingReadings == {5, 6, 22, None, NO_ALT}
\* distances to the target the vehicle may report: around the threshold
DistReadings == {99, 100, 101, 102}

VARIABLES
    DRONES,          \* registry: drone id -> link, NoLink when absent
    is_connected,    \* DroneDelivery.is_connected of each link
    nlinks,          \* number of DroneDelivery objects constructed so far
    created_for,     \* the drone id each DroneDelivery object was made for
    vehicle_open,    \* links whose connection to the vehicle is open
    response,        \* the answer of the last request handled, or the last
                     \* status_update message of the websocket loop
    lock,            \* DroneDelivery.lock: Free or the mission holding it
    home_location,   \* DroneDelivery._home_location: NoHome or who saved it
    orders,          \* table orders: order id -> row, NoOrder when not created
    th,              \* locals of each mission thread (pc, drone, timers ...)
    lastCmd,         \* last command sent on each link under the lock as held
                     \* now, and the mission sending it
    issued,          \* missions that have sent a command on their link
    events,          \* events each mission handed to manager.broadcast
    active_connections,  \* ConnectionManager.active_connections (a list)
    accepted,        \* sockets that have been accepted
    closed,          \* sockets whose peer is gone: a send to them raises
    bcast,           \* each call of broadcast(): its position in the loop
    received         \* the broadcasts each socket was sent

missionVars == <<DRONES, is_connected, nlinks, created_for, vehicle_open,
                 response, lock, home_location, orders, th, lastCmd, issued,
                 events>>

wsVars == <<active_connections, accepted, closed, bcast, received>>

vars == <<missionVars, wsVars>>

\* what only the request handlers change
linkVars == <<DRONES, is_connected, nlinks, created_for, vehicle_open,
              response>>

\* ------------------------------------------------------------ helpers
NoCmd == [by |-> 0, cmd |-> "none"]
NoHome == [by |-> 0, from |-> "none"]          \* _home_location = None
NoOrder == [drone_id |-> "", block |-> "", status |-> "NONE",
            completed_at |-> FALSE]            \* no row with this id

Idle == [pc |-> "idle", drone |-> NoLink, timer |-> 0, since |-> 0, quiet |-> 0,
         reissued |-> FALSE,
         last_distance |-> None, exit_distance |-> None,
         last_alt |-> None, alt_now |-> None,
         land_accepted |-> FALSE, payload_dropped |-> FALSE,
         home_target |-> NoHome,
         confirmed |-> "none", exit_alt |-> None, home_alt |-> None,
         notify_failed |-> {},
         sm_error |-> "none", returned |-> FALSE]

\* Locals of the thread that the code does not keep: confirmed is what the
\* wait loops of an arming or of a landing have read back since the last
\* command ("guided", "armed", "disarmed", or "none"), exit_alt the altitude read by the pass
\* that left a climb loop, home_alt the altitude of the vehicle at the
\* last pass of the disarm wait at home (which does not read it), and
\* notify_failed the notifications of the mission that raised.

\* The thread of mission m stands at label l.
At(m, l) == th[m].pc = l

\* The thread of mission m moves to label l, its locals unchanged.
Jump(m, l) == th' = [th EXCEPT ![m].pc = l]

\* self.vehicle.<command>: mission m sends command c on its link.
Send(m, c) ==
    /\ lastCmd' = [lastCmd EXCEPT ![th[m].drone] = [by |-> m, cmd |-> c]]
    /\ issued' = issued \cup {m}

NoSend == UNCHANGED <<lastCmd, issued>>

\* manager.broadcast(json.dumps({"type": e, ...})) called by mission m.
Publish(m, e) == events' = [events EXCEPT ![m] = Append(@, e)]

\* no request has been answered
NoResponse ==
    [op |-> "none", drone |-> "", code |-> 0, order_id |-> 0, drones |-> {}]

\* the handler op answers the request for drone d with an HTTP status
Respond(op, d, code, id) ==
    response' = [op |-> op, drone |-> d, code |-> code, order_id |-> id,
                 drones |-> {}]

\* a call of broadcast() that has not been made
NotCalled == [pc |-> "idle", index |-> 0, connection |-> 0,
              disconnected |-> {}, audience |-> {}]

Init ==
    /\ DRONES = [d \in DroneIds |-> NoLink]
    /\ is_connected = [l \in Links |-> FALSE]
    /\ nlinks = 0
    /\ created_for = [l \in Links |-> ""]
    /\ vehicle_open = [l \in Links |-> FALSE]
    /\ response = NoResponse
    /\ lock = [l \in Links |-> Free]
    /\ home_location = [l \in Links |-> NoHome]
    /\ orders = [m \in Missions |-> NoOrder]
    /\ th = [m \in Missions |-> Idle]
    /\ lastCmd = [l \in Links |-> NoCmd]
    /\ issued = {}
    /\ events = [m \in Missions |-> <<>>]
    /\ active_connections = <<>>
    /\ accepted = {}
    /\ closed = {}
    /\ bcast = [b \in Broadcasts |-> NotCalled]
    /\ received = [s \in Sockets |-> {}]

\* ------------------------------------------------- POST /api/launch
NextOrderId == Cardinality({m \in Missions : orders[m] # NoOrder}) + 1

\* LaunchInvalidBlock that resolves the link before it looks at the block.
LaunchInvalidBlockAfterConnect(d, block) ==
    /\ block \notin Blocks
    /\ IF DRONES[d] = NoLink /\ nlinks < MaxLinks
       THEN /\ nlinks' = nlinks + 1
            /\ DRONES' = [DRONES EXCEPT ![d] = nlinks + 1]
            /\ is_connected' = [is_connected EXCEPT ![nlinks + 1] = TRUE]
            /\ vehicle_open' = [vehicle_open EXCEPT ![nlinks + 1] = TRUE]
            /\ created_for' = [created_for EXCEPT ![nlinks + 1] = d]
       ELSE UNCHANGED <<DRONES, is_connected, nlinks, created_for,
                        vehicle_open>>
    /\ Respond("launch", d, 400, 0)
    /\ UNCHANGED <<wsVars, lock, home_location, orders, th, lastCmd, issued,
                   events>>

\* if request.block not in BLOCK_COORDINATES: 400, before anything else.
LaunchInvalidBlock(d, block) ==
    /\ block \notin Blocks
    /\ Respond("launch", d, 400, 0)
    /\ UNCHANGED <<DRONES, is_connected, nlinks, created_for, vehicle_open,
                   wsVars, lock, home_location, orders, th, lastCmd, issued,
                   events>>

\* LaunchConnectFails that leaves the link it could not open in DRONES.
LaunchConnectFailsRegistered(d, block) ==
    /\ block \in Blocks
    /\ DRONES[d] = NoLink
    /\ nlinks < MaxLinks
    /\ nlinks' = nlinks + 1
    /\ DRONES' = [DRONES EXCEPT ![d] = nlinks + 1]
    /\ created_for' = [created_for EXCEPT ![nlinks + 1] = d]
    /\ Respond("launch", d, 500, 0)
    /\ UNCHANGED <<is_connected, vehicle_open, wsVars, lock, home_location,
                   orders, th, lastCmd, issued, events>>

\* The connection attempt of DroneDelivery.__init__ raises: 500, nothing kept.
LaunchConnectFails(d, block) ==
    /\ block \in Blocks
    /\ DRONES[d] = NoLink
    /\ Respond("launch", d, 500, 0)
    /\ UNCHANGED <<DRONES, is_connected, nlinks, created_for, vehicle_open,
                   wsVars, lock, home_location, orders, th, lastCmd, issued,
                   events>>

\* with self.lock: on any exit of the block, the lock is released.
Release(m) ==
    /\ lock' = [lock EXCEPT ![th[m].drone] = Free]
    /\ lastCmd' = [lastCmd EXCEPT ![th[m].drone] = NoCmd]

\* Acquire that does not wait for the lock to be free.
AcquireHeld(m) ==
    lock' = [lock EXCEPT ![th[m].drone] = m]

\* with self.lock: the caller waits until the lock is free and takes it.
Acquire(m) ==
    /\ lock[th[m].drone] = Free
    /\ lock' = [lock EXCEPT ![th[m].drone] = m]

\* Swallowed with a try block of its own around each call of
\* perform_delivery: after the exception the thread goes on with
\* goto_location.
SwallowedThenGoto(m, e) ==
    th' = [th EXCEPT ![m] = [Idle EXCEPT !.pc = "gl_enter",
                                         !.drone = th[m].drone,
                                         !.sm_error = e]]

\* perform_delivery: an exception of either call is caught, printed and
\* dropped; the method returns normally and mission() goes on at line 737.
Swallowed(m, e) ==
    th' = [th EXCEPT ![m] = [Idle EXCEPT !.pc = "m_complete",
                                         !.drone = th[m].drone,
                                         !.sm_error = e]]

\* LaunchMission that first waits until no mission holds the lock of the
\* link of the drone.
LaunchMissionWhenLockFree(d, block, limit) ==
    /\ DRONES[d] # NoLink => lock[DRONES[d]] = Free
    /\ block \in Blocks
    /\ NextOrderId \in Missions
    /\ NextOrderId <= limit
    /\ IF DRONES[d] = NoLink
       THEN /\ nlinks < MaxLinks
            /\ nlinks' = nlinks + 1
            /\ DRONES' = [DRONES EXCEPT ![d] = nlinks + 1]
            /\ is_connected' = [is_connected EXCEPT ![nlinks + 1] = TRUE]
            /\ vehicle_open' = [vehicle_open EXCEPT ![nlinks + 1] = TRUE]
            /\ created_for' = [created_for EXCEPT ![nlinks + 1] = d]
       ELSE UNCHANGED <<DRONES, is_connected, nlinks, created_for,
                        vehicle_open>>
    /\ LET m == NextOrderId
       IN /\ Respond("launch", d, 200, m)
          /\ orders' = [orders EXCEPT ![m] =
                  [drone_id |-> d, block |-> block, status |-> "IN_PROGRESS",
                   completed_at |-> FALSE]]
          /\ th' = [th EXCEPT ![m] = [Idle EXCEPT !.pc = "aat_enter",
                                                  !.drone = DRONES'[d]]]
    /\ UNCHANGED <<wsVars, lock, home_location, lastCmd, issued, events>>

\* The launch is accepted: the link is resolved or created, the order row
\* is inserted IN_PROGRESS and the mission thread is started.
LaunchMission(d, block, limit) ==
    /\ block \in Blocks
    /\ NextOrderId \in Missions
    /\ NextOrderId <= limit
    /\ IF DRONES[d] = NoLink
       THEN /\ nlinks < MaxLinks
            /\ nlinks' = nlinks + 1
            /\ DRONES' = [DRONES EXCEPT ![d] = nlinks + 1]
            /\ is_connected' = [is_connected EXCEPT ![nlinks + 1] = TRUE]
            /\ vehicle_open' = [vehicle_open EXCEPT ![nlinks + 1] = TRUE]
            /\ created_for' = [created_for EXCEPT ![nlinks + 1] = d]
       ELSE UNCHANGED <<DRONES, is_connected, nlinks, created_for,
                        vehicle_open>>
    /\ LET m == NextOrderId
       IN /\ Respond("launch", d, 200, m)
          /\ orders' = [orders EXCEPT ![m] =
                  [drone_id |-> d, block |-> block, status |-> "IN_PROGRESS",
                   completed_at |-> FALSE]]
          /\ th' = [th EXCEPT ![m] = [Idle EXCEPT !.pc = "aat_enter",
                                                  !.drone = DRONES'[d]]]
    /\ UNCHANGED <<wsVars, lock, home_location, lastCmd, issued, events>>

\* ------------------------------------- DroneDelivery.arm_and_takeoff
AatEnter(m) ==
    /\ At(m, "aat_enter")
    /\ Acquire(m)
    /\ Jump(m, "aat_set_guided")
    /\ UNCHANGED <<linkVars, wsVars, home_location, orders, lastCmd, issued,
                   events>>

AatSetGuided(m) ==
    /\ At(m, "aat_set_guided")
    /\ Send(m, "mode_guided")
    /\ th' = [th EXCEPT ![m].pc = "aat_wait_mode", ![m].confirmed = "none"]
    /\ UNCHANGED <<linkVars, wsVars, lock, home_location, orders, events>>

\* The seconds a wait loop without a timeout has slept, counted up to
\* patience seconds (the loop itself keeps no count).
Waited(timer, patience) == IF timer < patience THEN timer + 1 ELSE timer

\* while self.vehicle.mode.name != "GUIDED": sleep(1)     (no timeout)
AatWaitMode(m, mode, patience) ==
    /\ At(m, "aat_wait_mode")
    /\ IF mode = "GUIDED"
       THEN th' = [th EXCEPT ![m].pc = "aat_arm", ![m].timer = 0,
                             ![m].confirmed = "guided"]
       ELSE th' = [th EXCEPT ![m].timer = Waited(@, patience)]
    /\ UNCHANGED <<linkVars, wsVars, lock, home_location, orders, lastCmd,
                   issued, events>>

AatArm(m) ==
    /\ At(m, "aat_arm")
    /\ Send(m, "arm")
    /\ th' = [th EXCEPT ![m].pc = "aat_wait_armed", ![m].confirmed = "none"]
    /\ UNCHANGED <<linkVars, wsVars, lock, home_location, orders, events>>

\* while not self.vehicle.armed: sleep(1)                  (no timeout)
AatWaitArmed(m, armed, patience) ==
    /\ At(m, "aat_wait_armed")
    /\ IF armed
       THEN th' = [th EXCEPT ![m].pc = "aat_set_home", ![m].timer = 0,
                             ![m].confirmed = "armed"]
       ELSE th' = [th EXCEPT ![m].timer = Waited(@, patience)]
    /\ UNCHANGED <<linkVars, wsVars, lock, home_location, orders, lastCmd,
                   issued, events>>

\* MAV_CMD_DO_SET_HOME, best effort; then start = time.time()
AatSetHome(m) ==
    /\ At(m, "aat_set_home")
    /\ Send(m, "set_home")
    /\ th' = [th EXCEPT ![m].pc = "aat_arm_timeout", ![m].timer = 0,
                        ![m].confirmed = "none"]
    /\ UNCHANGED <<linkVars, wsVars, lock, home_location, orders, events>>

\* while not armed: if time.time() - start > 45: raise; sleep(1)
AatArmTimeout(m, armed) ==
    /\ At(m, "aat_arm_timeout")
    /\ IF armed
       THEN /\ th' = [th EXCEPT ![m].pc = "aat_takeoff", ![m].timer = 0,
                                  ![m].confirmed = "armed"]
            /\ UNCHANGED <<lock, lastCmd>>
       ELSE IF th[m].timer > ARM_TIMEOUT_S
            THEN /\ Swallowed(m, "Arming timeout")
                 /\ Release(m)
            ELSE /\ th' = [th EXCEPT ![m].timer = @ + 1]
                 /\ UNCHANGED <<lock, lastCmd>>
    /\ UNCHANGED <<linkVars, wsVars, home_location, orders, issued, events>>

AatTakeoff(m) ==
    /\ At(m, "aat_takeoff")
    /\ Send(m, "takeoff")
    /\ th' = [th EXCEPT ![m].pc = "aat_climb", ![m].confirmed = "none"]
    /\ UNCHANGED <<linkVars, wsVars, lock, home_location, orders, events>>

\* AatClimb that gives up on the first reading below the target.
AatClimbTimingOut(m, alt) ==
    /\ At(m, "aat_climb")
    /\ IF alt >= TAKEOFF_ALT
       THEN /\ th' = [th EXCEPT ![m].pc = "gl_enter", ![m].exit_alt = alt]
            /\ Release(m)
       ELSE /\ Swallowed(m, "Takeoff timeout")
            /\ Release(m)
    /\ UNCHANGED <<linkVars, wsVars, home_location, orders, issued, events>>

\* while True: if alt >= target_altitude * 0.95: break; sleep(1)
AatClimb(m, alt) ==
    /\ At(m, "aat_climb")
    /\ IF alt >= TAKEOFF_ALT
       THEN /\ th' = [th EXCEPT ![m].pc = "gl_enter", ![m].exit_alt = alt]
            /\ Release(m)
       ELSE UNCHANGED <<th, lock, lastCmd>>
    /\ UNCHANGED <<linkVars, wsVars, home_location, orders, issued, events>>

\* -------------------------------------- DroneDelivery.goto_location
\* time.time() - last_cmd_time after a further sleep of n seconds; the code
\* only asks whether it exceeds 3 s, so larger values are kept as one.
Later(since, n) ==
    IF since + n > REISSUE_AFTER_S THEN REISSUE_AFTER_S + 1 ELSE since + n

\* time.time() - last_cmd_time > 3
Exceeds(since, late) ==
    since > REISSUE_AFTER_S \/ (since = REISSUE_AFTER_S /\ late)

GlEnter(m) ==
    /\ At(m, "gl_enter")
    /\ Acquire(m)
    /\ Jump(m, "gl_save_home")
    /\ UNCHANGED <<linkVars, wsVars, home_location, orders, lastCmd, issued,
                   events>>

\* GlSaveHome that saves the position only when no home is saved yet.
GlSaveHomeOnce(m, frame) ==
    /\ At(m, "gl_save_home")
    /\ IF frame = "unreadable"
       THEN /\ Swallowed(m, "no position")
            /\ Release(m)
            /\ UNCHANGED <<home_location, issued>>
       ELSE /\ home_location' =
                   IF home_location[th[m].drone] = NoHome
                   THEN [home_location EXCEPT ![th[m].drone] =
                             [by |-> m, from |-> frame]]
                   ELSE home_location
            /\ Send(m, "mode_guided")
            /\ Jump(m, "gl_wait_guided")
            /\ UNCHANGED lock
    /\ UNCHANGED <<linkVars, wsVars, orders, events>>

\* self._home_location = current position, read from global_relative_frame
\* or, when that read raises, from global_frame; then mode = GUIDED.
\* When the read of global_frame raises too (frame "unreadable") the
\* exception leaves goto_location with _home_location as it was.
GlSaveHome(m, frame) ==
    /\ At(m, "gl_save_home")
    /\ IF frame = "unreadable"
       THEN /\ Swallowed(m, "no position")
            /\ Release(m)
            /\ UNCHANGED <<home_location, issued>>
       ELSE /\ home_location' = [home_location EXCEPT ![th[m].drone] =
                                     [by |-> m, from |-> frame]]
            /\ Send(m, "mode_guided")
            /\ Jump(m, "gl_wait_guided")
            /\ UNCHANGED lock
    /\ UNCHANGED <<linkVars, wsVars, orders, events>>

\* while mode != "GUIDED" and time.time() - start < 10: sleep(0.5)
\* The loop sends nothing and ends within 10 s, with the mode accepted or
\* not: the navigation starts either way.
GlWaitGuided(m, mode) ==
    /\ At(m, "gl_wait_guided")
    /\ mode \in Modes
    /\ Jump(m, "gl_goto")
    /\ UNCHANGED <<linkVars, wsVars, lock, home_location, orders, lastCmd,
                   issued, events>>

\* simple_goto(target_location); last_distance = None; last_cmd_time = now
GlGoto(m) ==
    /\ At(m, "gl_goto")
    /\ Send(m, "goto")
    /\ th' = [th EXCEPT ![m].pc = "nav", ![m].since = 0, ![m].quiet = 0,
                        ![m].reissued = FALSE, ![m].last_distance = None]
    /\ UNCHANGED <<linkVars, wsVars, lock, home_location, orders, events>>

\* progressed = distance < (last_distance - 5e-7)
Progressed(distance, last_distance) == distance < last_distance - PROGRESS_EPS

\* Reissue with a threshold one second later.
ReissueLate(distance, last_distance, since, late) ==
    /\ last_distance # None
    /\ ~Progressed(distance, last_distance)
    /\ since > REISSUE_AFTER_S + 1

\* if (not progressed) and (time.time() - last_cmd_time > 3): reissue
Reissue(distance, last_distance, since, late) ==
    /\ last_distance # None
    /\ ~Progressed(distance, last_distance)
    /\ Exceeds(since, late)

\* Arrived with the threshold itself counted as reached.
ArrivedAtThreshold(distance) == distance <= PROXIMITY

\* if distance < 0.00005: break
Arrived(distance) == distance < PROXIMITY

\* NavPass whose reset to GUIDED restarts the clock of the last goto.
NavPassResetting(m, mode, wait, distance, late, cmd, exit, failed) ==
    LET since == IF mode = "GUIDED" THEN th[m].since ELSE 0
        again == Reissue(distance, th[m].last_distance, since, late)
        stale == /\ th[m].last_distance # None
                 /\ ~Progressed(distance, th[m].last_distance)
                 /\ ~again
    IN /\ IF again THEN Send(m, cmd)
          ELSE IF mode # "GUIDED" THEN Send(m, "mode_guided")
          ELSE NoSend
       /\ IF Arrived(distance)
          THEN th' = [th EXCEPT ![m].pc = exit, ![m].since = 0,
                               ![m].quiet = 0, ![m].reissued = FALSE,
                               ![m].last_distance = None,
                               ![m].exit_distance = distance,
                               ![m].notify_failed = @ \cup failed]
          ELSE th' = [th EXCEPT ![m].since =
                                   Later(IF again THEN 0 ELSE since, 1),
                               ![m].quiet = IF stale THEN @ + 1 ELSE 0,
                               ![m].reissued = (@ \/ again),
                               ![m].last_distance = distance]

\* One pass of the navigation loop of a leg: the mode check (with the reset
\* to GUIDED taking wait seconds when the mode has drifted), the position
\* read, the progress check and either the exit or the sleep(1).
\* quiet counts the passes in a row that found no progress and did not
\* reissue the goto; reissued tells that this leg has reissued it;
\* exit_distance keeps the distance computed by the pass that left the loop
\* and failed names the notification of the exit that raised, if any.
NavPass(m, mode, wait, distance, late, cmd, exit, failed) ==
    LET since == IF mode = "GUIDED" THEN th[m].since
                 ELSE Later(th[m].since, wait)
        again == Reissue(distance, th[m].last_distance, since, late)
        stale == /\ th[m].last_distance # None
                 /\ ~Progressed(distance, th[m].last_distance)
                 /\ ~again
    IN /\ IF again THEN Send(m, cmd)
          ELSE IF mode # "GUIDED" THEN Send(m, "mode_guided")
          ELSE NoSend
       /\ IF Arrived(distance)
          THEN th' = [th EXCEPT ![m].pc = exit, ![m].since = 0,
                               ![m].quiet = 0, ![m].reissued = FALSE,
                               ![m].last_distance = None,
                               ![m].exit_distance = distance,
                               ![m].notify_failed = @ \cup failed]
          ELSE th' = [th EXCEPT ![m].since =
                                   Later(IF again THEN 0 ELSE since, 1),
                               ![m].quiet = IF stale THEN @ + 1 ELSE 0,
                               ![m].reissued = (@ \/ again),
                               ![m].last_distance = distance]

\* the notifications that raised, given which of them returned
Raised(name, sent) == IF sent THEN {} ELSE {name}

\* Nav with the arrival callback left out.
NavWithoutCallback(m, mode, wait, distance, late, sent) ==
    /\ At(m, "nav")
    /\ NavPass(m, mode, wait, distance, late, "goto", "dl_land_mode", {})
    /\ UNCHANGED <<linkVars, wsVars, lock, home_location, orders, events>>

\* Nav that lets an exception of notify_callback leave goto_location.
NavAbortingOnCallback(m, mode, wait, distance, late, sent) ==
    /\ At(m, "nav")
    /\ IF Arrived(distance) /\ ~sent
       THEN /\ th' = [th EXCEPT ![m] =
                      [Idle EXCEPT !.pc = "m_complete",
                                   !.drone = th[m].drone,
                                   !.sm_error = "notify_callback",
                                   !.notify_failed = {"arrived"}]]
            /\ Release(m)
            /\ UNCHANGED issued
       ELSE /\ NavPass(m, mode, wait, distance, late, "goto",
                       "dl_land_mode", {})
            /\ UNCHANGED lock
    /\ IF Arrived(distance) THEN Publish(m, "arrived_at_block")
       ELSE UNCHANGED events
    /\ UNCHANGED <<linkVars, wsVars, home_location, orders>>

\* Outbound leg; on arrival notify_callback() hands arrived_at_block to
\* manager.broadcast; when the callback raises (~sent) the exception is
\* caught and printed, and the loop is left all the same.
Nav(m, mode, wait, distance, late, sent) ==
    /\ At(m, "nav")
    /\ NavPass(m, mode, wait, distance, late, "goto", "dl_land_mode",
               Raised("arrived", sent))
    /\ IF Arrived(distance) THEN Publish(m, "arrived_at_block")
       ELSE UNCHANGED events
    /\ UNCHANGED <<linkVars, wsVars, lock, home_location, orders>>

\* self.vehicle.mode = VehicleMode("LAND"); simple_goto(descend_target);
\* last_alt = None; last_cmd_time = now
DlLandMode(m) ==
    /\ At(m, "dl_land_mode")
    /\ Send(m, "mode_land")
    /\ Jump(m, "dl_descend")
    /\ UNCHANGED <<linkVars, wsVars, lock, home_location, orders, events>>

DlDescend(m) ==
    /\ At(m, "dl_descend")
    /\ Send(m, "goto_descend")
    /\ th' = [th EXCEPT ![m].pc = "dl_poll", ![m].since = 0,
                        ![m].last_alt = None]
    /\ UNCHANGED <<linkVars, wsVars, lock, home_location, orders, events>>

\* One pass of the descent loop; alt is None when the link has no reading.
DlPoll(m, alt, late) ==
    /\ At(m, "dl_poll")
    /\ LET again == /\ alt # None
                     /\ th[m].last_alt # None
                     /\ ~(alt < th[m].last_alt - DESCENT_MARGIN)
                     /\ Exceeds(th[m].since, late)
       IN IF alt = None
          THEN th' = [th EXCEPT ![m].since = Later(@, 1)] /\ NoSend
          ELSE IF alt <= LANDING_ALT
          THEN /\ th' = [th EXCEPT ![m].pc = "ld_land", ![m].since = 0,
                                   ![m].last_alt = None]
               /\ NoSend
          ELSE /\ IF again THEN Send(m, "goto_descend") ELSE NoSend
               /\ th' = [th EXCEPT ![m].since =
                                       Later(IF again THEN 0 ELSE @, 1),
                                   ![m].last_alt = alt]
    /\ UNCHANGED <<linkVars, wsVars, lock, home_location, orders, events>>

\* Land and disarm at the destination: mode = LAND, t_land = now
LdLand(m) ==
    /\ At(m, "ld_land")
    /\ Send(m, "mode_land")
    /\ Jump(m, "ld_wait_land")
    /\ UNCHANGED <<linkVars, wsVars, lock, home_location, orders, events>>

\* while mode != "LAND" and time.time() - t_land < 10: sleep(0.5)
\* The loop sends nothing and ends within 10 s; then, on a fresh read of
\* the mode, LAND is commanded once more when it is still not the mode.
\* land_accepted keeps that last read for the disarm wait that follows.
LdWaitLand(m, mode) ==
    /\ At(m, "ld_wait_land")
    /\ th' = [th EXCEPT ![m].pc = "ld_disarm",
                        ![m].land_accepted = (mode = "LAND")]
    /\ IF mode # "LAND" THEN Send(m, "mode_land") ELSE NoSend
    /\ UNCHANGED <<linkVars, wsVars, lock, home_location, orders, events>>

\* if alt_now is not None and alt_now < 0.3: send the disarm command
NearGround(alt_now) == alt_now # None /\ alt_now < NEAR_GROUND_ALT

\* LdDisarm with the fallback disarm only once LAND has been accepted.
LdDisarmAfterLand(m, armed, alt) ==
    /\ At(m, "ld_disarm")
    /\ IF armed
       THEN /\ th' = [th EXCEPT ![m].alt_now = alt]
            /\ IF NearGround(alt) /\ th[m].land_accepted
               THEN Send(m, "disarm") ELSE NoSend
       ELSE /\ th' = [th EXCEPT ![m].pc = "pr_servo", ![m].alt_now = None,
                                   ![m].land_accepted = FALSE,
                                   ![m].confirmed = "disarmed"]
            /\ NoSend
    /\ UNCHANGED <<linkVars, wsVars, lock, home_location, orders, events>>

\* LdDisarm that leaves the loop once the fallback disarm has been sent,
\* without reading armed again.
LdDisarmUnobserved(m, armed, alt) ==
    /\ At(m, "ld_disarm")
    /\ IF armed
       THEN IF NearGround(alt)
            THEN /\ Send(m, "disarm")
                 /\ th' = [th EXCEPT ![m].pc = "pr_servo",
                                     ![m].alt_now = None,
                                     ![m].land_accepted = FALSE]
            ELSE /\ th' = [th EXCEPT ![m].alt_now = alt]
                 /\ NoSend
       ELSE /\ th' = [th EXCEPT ![m].pc = "pr_servo", ![m].alt_now = None,
                                   ![m].land_accepted = FALSE,
                                   ![m].confirmed = "disarmed"]
            /\ NoSend
    /\ UNCHANGED <<linkVars, wsVars, lock, home_location, orders, events>>

\* while self.vehicle.armed: read the altitude (999 when the read raises),
\* send the fallback disarm when near the ground, sleep(1).
LdDisarm(m, armed, alt) ==
    /\ At(m, "ld_disarm")
    /\ IF armed
       THEN /\ th' = [th EXCEPT ![m].alt_now = alt]
            /\ IF NearGround(alt) THEN Send(m, "disarm") ELSE NoSend
       ELSE /\ th' = [th EXCEPT ![m].pc = "pr_servo", ![m].alt_now = None,
                                   ![m].land_accepted = FALSE,
                                   ![m].confirmed = "disarmed"]
            /\ NoSend
    /\ UNCHANGED <<linkVars, wsVars, lock, home_location, orders, events>>

\* set_servo(10, 2000); sleep(2); set_servo(10, 1000); payload_dropped =
\* True. An exception of either set_servo is caught: sent counts the
\* servo commands that went out.
PrServo(m, sent) ==
    /\ At(m, "pr_servo")
    /\ IF sent > 0 THEN Send(m, "servo") ELSE NoSend
    /\ th' = [th EXCEPT ![m].pc = "pr_wait_disarm",
                        ![m].payload_dropped = (sent = 2),
                        ![m].confirmed = "none"]
    /\ UNCHANGED <<linkVars, wsVars, lock, home_location, orders, events>>

\* while self.vehicle.armed: sleep(1)
PrWaitDisarm(m, armed) ==
    /\ At(m, "pr_wait_disarm")
    /\ IF armed THEN UNCHANGED th ELSE Jump(m, "pr_delivered")
    /\ UNCHANGED <<linkVars, wsVars, lock, home_location, orders, lastCmd,
                   issued, events>>

\* mark_delivered without the broadcast of order_delivered.
MarkDeliveredSilently(m, dbOk) ==
    /\ IF dbOk
       THEN orders' = [orders EXCEPT ![m].status = "DELIVERED",
                                     ![m].completed_at = TRUE]
       ELSE UNCHANGED orders
    /\ UNCHANGED events

\* launch_mission.mission.mark_delivered: the row becomes DELIVERED with
\* completed_at set (a failure of the update is caught), then
\* order_delivered is published.
MarkDelivered(m, dbOk) ==
    /\ IF dbOk
       THEN orders' = [orders EXCEPT ![m].status = "DELIVERED",
                                     ![m].completed_at = TRUE]
       ELSE UNCHANGED orders
    /\ Publish(m, "order_delivered")

\* PrDelivered that calls delivered_callback whatever the release did.
PrDeliveredAlways(m, dbOk, apiOk, sent) ==
    /\ At(m, "pr_delivered")
    /\ MarkDelivered(m, dbOk)
    /\ th' = [th EXCEPT ![m].pc = "ra_set_guided",
                        ![m].notify_failed =
                            @ \cup Raised("orders_api", apiOk)
                              \cup Raised("delivered", sent)]
    /\ UNCHANGED <<linkVars, wsVars, lock, home_location, lastCmd, issued>>

\* if delivered_callback and payload_dropped: delivered_callback()
\* then time.sleep(PAYLOAD_RELEASE_DELAY_SECONDS)
\* In mark_delivered the update of the row and the PATCH to the Orders
\* service (timeout 5 s) are each in a try of their own; ~apiOk tells
\* that the PATCH failed, ~sent that the broadcast of order_delivered
\* raised, which the try around delivered_callback() catches.
PrDelivered(m, dbOk, apiOk, sent) ==
    /\ At(m, "pr_delivered")
    /\ IF th[m].payload_dropped
       THEN /\ MarkDelivered(m, dbOk)
            /\ th' = [th EXCEPT ![m].pc = "ra_set_guided",
                                ![m].notify_failed =
                                    @ \cup Raised("orders_api", apiOk)
                                      \cup Raised("delivered", sent)]
       ELSE /\ UNCHANGED <<orders, events>>
            /\ Jump(m, "ra_set_guided")
    /\ UNCHANGED <<linkVars, wsVars, lock, home_location, lastCmd, issued>>

\* Re-arm for the return flight: mode = GUIDED; armed = True
RaSetGuided(m) ==
    /\ At(m, "ra_set_guided")
    /\ Send(m, "mode_guided")
    /\ th' = [th EXCEPT ![m].pc = "ra_arm", ![m].confirmed = "none"]
    /\ UNCHANGED <<linkVars, wsVars, lock, home_location, orders, events>>

RaArm(m) ==
    /\ At(m, "ra_arm")
    /\ Send(m, "arm")
    /\ th' = [th EXCEPT ![m].pc = "ra_wait_armed", ![m].confirmed = "none"]
    /\ UNCHANGED <<linkVars, wsVars, lock, home_location, orders, events>>

\* while not self.vehicle.armed: sleep(1)
RaWaitArmed(m, armed) ==
    /\ At(m, "ra_wait_armed")
    /\ IF armed
       THEN th' = [th EXCEPT ![m].pc = "ra_takeoff", ![m].confirmed = "armed"]
       ELSE UNCHANGED th
    /\ UNCHANGED <<linkVars, wsVars, lock, home_location, orders, lastCmd,
                   issued, events>>

RaTakeoff(m) ==
    /\ At(m, "ra_takeoff")
    /\ Send(m, "takeoff")
    /\ th' = [th EXCEPT ![m].pc = "ra_climb", ![m].confirmed = "none",
                        ![m].exit_alt = None]
    /\ UNCHANGED <<linkVars, wsVars, lock, home_location, orders, events>>

\* while alt < cruise_alt * 0.95: sleep(1); then mode = GUIDED, t0 = now
\* (_home_location is not None here: it was set under this same lock)
RaClimb(m, alt) ==
    /\ At(m, "ra_climb")
    /\ IF alt < TAKEOFF_ALT
       THEN UNCHANGED th /\ NoSend
       ELSE /\ th' = [th EXCEPT ![m].pc = "rt_wait_guided",
                                  ![m].exit_alt = alt]
            /\ Send(m, "mode_guided")
    /\ UNCHANGED <<linkVars, wsVars, lock, home_location, orders, events>>

\* while mode != "GUIDED" and time.time() - t0 < 10: sleep(0.5)
RtWaitGuided(m, mode) ==
    /\ At(m, "rt_wait_guided")
    /\ mode \in Modes
    /\ Jump(m, "rt_goto")
    /\ UNCHANGED <<linkVars, wsVars, lock, home_location, orders, lastCmd,
                   issued, events>>

\* home_target = the saved home at cruise altitude; simple_goto(home_target)
RtGoto(m) ==
    /\ At(m, "rt_goto")
    /\ Send(m, "goto_home")
    /\ th' = [th EXCEPT ![m].pc = "rt_nav", ![m].since = 0,
                        ![m].quiet = 0, ![m].reissued = FALSE,
                        ![m].last_distance = None,
                        ![m].exit_distance = None,
                        ![m].home_target = home_location[th[m].drone]]
    /\ UNCHANGED <<linkVars, wsVars, lock, home_location, orders, events>>

\* Return leg: the same loop, towards the saved home, without a callback.
RtNav(m, mode, wait, distance, late) ==
    /\ At(m, "rt_nav")
    /\ NavPass(m, mode, wait, distance, late, "goto_home", "lh_land", {})
    /\ UNCHANGED <<linkVars, wsVars, lock, home_location, orders, events>>

\* time.sleep(2); self.vehicle.mode = VehicleMode("LAND")
LhLand(m) ==
    /\ At(m, "lh_land")
    /\ Send(m, "mode_land")
    /\ Jump(m, "lh_wait_disarm")
    /\ UNCHANGED <<linkVars, wsVars, lock, home_location, orders, events>>

\* while self.vehicle.armed: sleep(1); then goto_location returns, the
\* lock is released and perform_delivery returns to mission(). The loop
\* reads nothing but armed and sends nothing: alt is the altitude the
\* vehicle has at the pass.
LhWaitDisarm(m, armed, alt) ==
    /\ At(m, "lh_wait_disarm")
    /\ IF armed
       THEN /\ th' = [th EXCEPT ![m].home_alt = alt]
            /\ UNCHANGED <<lock, lastCmd>>
       ELSE /\ th' = [th EXCEPT ![m] =
                      [Idle EXCEPT !.pc = "m_complete",
                                   !.drone = th[m].drone,
                                   !.notify_failed = th[m].notify_failed,
                                   !.returned = TRUE]]
            /\ Release(m)
    /\ UNCHANGED <<linkVars, wsVars, home_location, orders, issued, events>>

\* Labels at which the thread is about to use the vehicle outside any
\* try block: an exception of the link there leaves the method.
Unguarded ==
    {"aat_set_guided", "aat_wait_mode", "aat_arm", "aat_wait_armed",
     "aat_arm_timeout", "aat_takeoff", "aat_climb", "gl_save_home",
     "gl_wait_guided", "gl_goto", "nav", "dl_land_mode", "dl_poll",
     "ld_wait_land", "ld_disarm", "pr_wait_disarm", "ra_set_guided",
     "ra_arm", "ra_wait_armed", "ra_takeoff", "ra_climb", "rt_wait_guided",
     "rt_goto", "rt_nav", "lh_land", "lh_wait_disarm"}

\* LinkRaises whose exception leaves the block with the lock still held.
LinkRaisesHolding(m) ==
    /\ th[m].pc \in Unguarded
    /\ Swallowed(m, "link error")
    /\ UNCHANGED <<linkVars, wsVars, lock, home_location, orders, lastCmd,
                   issued, events>>

\* The link raises (a lost connection): the with block releases the lock
\* and perform_delivery swallows the exception.
LinkRaises(m) ==
    /\ th[m].pc \in Unguarded
    /\ Swallowed(m, "link error")
    /\ Release(m)
    /\ UNCHANGED <<linkVars, wsVars, home_location, orders, issued, events>>

\* ------------------------------------------- launch_mission.mission
\* MComplete whose handler puts the row back to IN_PROGRESS.
MCompleteReverting(m, dbOk, failOk) ==
    /\ At(m, "m_complete")
    /\ IF dbOk
       THEN /\ orders' = [orders EXCEPT ![m].status = "COMPLETED",
                                        ![m].completed_at = TRUE]
            /\ Publish(m, "mission_completed")
       ELSE /\ orders' = [orders EXCEPT ![m].status = "IN_PROGRESS"]
            /\ Publish(m, "mission_failed")
    /\ th' = [th EXCEPT ![m].pc = "done", ![m].sm_error = "none"]
    /\ UNCHANGED <<linkVars, wsVars, lock, home_location, lastCmd, issued>>

\* After perform_delivery has returned: the row becomes COMPLETED with
\* completed_at set and mission_completed is published. When the update
\* raises (~dbOk), the handler of mission() sets the row to 'FAILED: ...'
\* (and leaves completed_at alone) and publishes mission_failed; when that
\* update raises too (~failOk) the thread ends with the row as it was.
MComplete(m, dbOk, failOk) ==
    /\ At(m, "m_complete")
    /\ IF dbOk
       THEN /\ orders' = [orders EXCEPT ![m].status = "COMPLETED",
                                        ![m].completed_at = TRUE]
            /\ Publish(m, "mission_completed")
       ELSE IF failOk
       THEN /\ orders' = [orders EXCEPT ![m].status = "FAILED"]
            /\ Publish(m, "mission_failed")
       ELSE UNCHANGED <<orders, events>>
    /\ th' = [th EXCEPT ![m].pc = "done", ![m].sm_error = "none"]
    /\ UNCHANGED <<linkVars, wsVars, lock, home_location, lastCmd, issued>>

\* ------------------------------------------------------ specification
\* What the flight controller and the database may answer: every value
\* around every threshold of the code. The notifications succeed: their
\* failures are followed in NotifySpec.
AllInputs ==
    [modes |-> Modes, armed |-> BOOLEAN, rearmed |-> BOOLEAN,
     alts |-> AltReadings, landing |-> LandingReadings,
     dists |-> DistReadings, waits |-> 0..MODE_RESET_WAIT_S,
     frames |-> {"relative", "global", "unreadable"}, servo |-> 0..2,
     db |-> BOOLEAN,
     late |-> BOOLEAN, patience |-> ARM_TIMEOUT_S + 2,
     notify |-> {TRUE}, api |-> {TRUE}]

\* The answers kept when several missions are followed together: for each
\* poll the answer that ends it and one that does not, and every failure
\* (a lost link, a servo fault, a failed update).
FleetInputs ==
    [modes |-> {"GUIDED", "LAND"}, armed |-> BOOLEAN, rearmed |-> {TRUE},
     alts |-> {5, 380}, landing |-> {5, 22},
     dists |-> {99, 102}, waits |-> {0},
     frames |-> {"relative"}, servo |-> {0, 2}, db |-> BOOLEAN,
     late |-> {FALSE}, patience |-> 0, notify |-> {TRUE}, api |-> {TRUE}]

Launch(limit) ==
    \E d \in MissionDrones, block \in RequestBlocks :
        \/ LaunchMission(d, block, limit)
        \/ LaunchConnectFails(d, block)

Flight(m, in) ==
    \/ AatEnter(m)
    \/ AatSetGuided(m)
    \/ \E mode \in in.modes : AatWaitMode(m, mode, in.patience)
    \/ AatArm(m)
    \/ \E armed \in in.armed : AatWaitArmed(m, armed, in.patience)
    \/ AatSetHome(m)
    \/ \E armed \in in.rearmed : AatArmTimeout(m, armed)
    \/ AatTakeoff(m)
    \/ \E alt \in in.alts : AatClimb(m, alt)
    \/ GlEnter(m)
    \/ \E frame \in in.frames : GlSaveHome(m, frame)
    \/ \E mode \in in.modes : GlWaitGuided(m, mode)
    \/ GlGoto(m)
    \/ \E mode \in in.modes, wait \in in.waits, distance \in in.dists,
          late \in in.late, sent \in in.notify :
           /\ mode = "GUIDED" => wait = 0
           /\ Nav(m, mode, wait, distance, late, sent)
    \/ DlLandMode(m)
    \/ DlDescend(m)
    \/ \E alt \in in.alts \cup {None}, late \in in.late : DlPoll(m, alt, late)
    \/ LdLand(m)
    \/ \E mode \in in.modes : LdWaitLand(m, mode)
    \/ \E armed \in in.armed, alt \in in.landing : LdDisarm(m, armed, alt)
    \/ \E sent \in in.servo : PrServo(m, sent)
    \/ \E armed \in in.armed : PrWaitDisarm(m, armed)
    \/ \E dbOk \in in.db, apiOk \in in.api, sent \in in.notify :
           PrDelivered(m, dbOk, apiOk, sent)
    \/ RaSetGuided(m)
    \/ RaArm(m)
    \/ \E armed \in in.armed : RaWaitArmed(m, armed)
    \/ RaTakeoff(m)
    \/ \E alt \in in.alts : RaClimb(m, alt)
    \/ \E mode \in in.modes : RtWaitGuided(m, mode)
    \/ RtGoto(m)
    \/ \E mode \in in.modes, wait \in in.waits, distance \in in.dists,
          late \in in.late :
           (mode = "GUIDED" => wait = 0) /\ RtNav(m, mode, wait, distance, late)
    \/ LhLand(m)
    \/ \E armed \in in.armed, alt \in in.landing : LhWaitDisarm(m, armed, alt)
    \/ \E dbOk \in in.db, failOk \in in.db : MComplete(m, dbOk, failOk)

Mission(m, in) ==
    \/ Flight(m, in)
    \/ LinkRaises(m)

\* One mission at a time, every answer of the vehicle.
Next ==
    \/ Launch(MaxFlights)
    \/ \E m \in Missions : Mission(m, AllInputs)

Spec == Init /\ [][Next]_vars

\* Several missions on one drone, launched at any time.
FleetNext ==
    \/ Launch(MaxMissions)
    \/ \E m \in Missions : Mission(m, FleetInputs)

FleetSpec == Init /\ [][FleetNext]_vars

\* ------------------------------------------- registry endpoints
\* what each handler leaves alone
notRegistry == <<wsVars, lock, home_location, orders, th, lastCmd, issued,
                 events>>

\* f with the entry of link old, when there is one, set to FALSE
Off(f, old) == [l \in Links |-> IF l = old THEN FALSE ELSE f[l]]

\* CloseConnection that takes the command lock of the link it closes.
CloseConnectionUnderLock(old, closing) ==
    /\ old # NoLink => lock[old] = Free
    /\ is_connected' = Off(is_connected, old)
    /\ vehicle_open' = IF closing = "closed" THEN Off(vehicle_open, old)
                       ELSE vehicle_open

\* DroneDelivery.close_connection: is_connected = False, vehicle.close().
\* closing tells whether vehicle.close() returned ("closed") or raised
\* ("raised", the connection may then still be open).
CloseConnection(old, closing) ==
    /\ is_connected' = Off(is_connected, old)
    /\ vehicle_open' = IF closing = "closed" THEN Off(vehicle_open, old)
                       ELSE vehicle_open

\* POST /api/connect with an empty connection string: 400.
ConnectInvalid(d) ==
    /\ Respond("connect", d, 400, 0)
    /\ UNCHANGED <<DRONES, is_connected, nlinks, created_for, vehicle_open,
                   notRegistry>>

\* ConnectDrone that installs the new link without closing the old one.
ConnectDroneKeepingOld(d, closing, ok) ==
    /\ ok /\ nlinks < MaxLinks
    /\ nlinks' = nlinks + 1
    /\ DRONES' = [DRONES EXCEPT ![d] = nlinks + 1]
    /\ created_for' = [created_for EXCEPT ![nlinks + 1] = d]
    /\ is_connected' = [is_connected EXCEPT ![nlinks + 1] = TRUE]
    /\ vehicle_open' = [vehicle_open EXCEPT ![nlinks + 1] = TRUE]
    /\ Respond("connect", d, 200, 0)
    /\ UNCHANGED notRegistry

\* POST /api/connect: under DRONE_LOCK, close the registered link if there
\* is one, construct a new DroneDelivery and store it. When close raises
\* or the construction fails (~ok) the answer is 500 and DRONES is left as
\* it was, with the old link closed.
ConnectDrone(d, closing, ok) ==
    LET old == DRONES[d]
        new == nlinks + 1
    IN IF old # NoLink /\ closing = "raised"
       THEN /\ CloseConnection(old, closing)
            /\ Respond("connect", d, 500, 0)
            /\ UNCHANGED <<DRONES, nlinks, created_for, notRegistry>>
       ELSE IF ok
       THEN /\ nlinks < MaxLinks
            /\ nlinks' = new
            /\ DRONES' = [DRONES EXCEPT ![d] = new]
            /\ created_for' = [created_for EXCEPT ![new] = d]
            /\ is_connected' = [Off(is_connected, old) EXCEPT ![new] = TRUE]
            /\ vehicle_open' = [Off(vehicle_open, old) EXCEPT ![new] = TRUE]
            /\ Respond("connect", d, 200, 0)
            /\ UNCHANGED notRegistry
       ELSE /\ CloseConnection(old, "closed")
            /\ Respond("connect", d, 500, 0)
            /\ UNCHANGED <<DRONES, nlinks, created_for, notRegistry>>

\* DELETE /api/drones/{drone_id}: under DRONE_LOCK, close the link and
\* delete the entry; 404 when the id is absent. When close raises the del
\* statement is not reached and the request ends with 500.
DisconnectDrone(d, closing) ==
    LET old == DRONES[d]
    IN IF old = NoLink
       THEN /\ Respond("remove", d, 404, 0)
            /\ UNCHANGED <<DRONES, is_connected, nlinks, created_for,
                           vehicle_open, notRegistry>>
       ELSE /\ CloseConnection(old, closing)
            /\ IF closing = "closed"
               THEN /\ DRONES' = [DRONES EXCEPT ![d] = NoLink]
                    /\ Respond("remove", d, 200, 0)
               ELSE /\ UNCHANGED DRONES
                    /\ Respond("remove", d, 500, 0)
            /\ UNCHANGED <<nlinks, created_for, notRegistry>>

\* POST /api/status: 404 when the id is not in DRONES, else get_status(),
\* which answers even when the reads of the vehicle raise.
GetDroneStatus(d) ==
    /\ Respond("status", d, IF DRONES[d] = NoLink THEN 404 ELSE 200, 0)
    /\ UNCHANGED <<DRONES, is_connected, nlinks, created_for, vehicle_open,
                   notRegistry>>

\* StatusSnapshot that takes the lock of each link before it reads it.
StatusSnapshotUnderLocks ==
    /\ \A d \in DroneIds : DRONES[d] # NoLink => lock[DRONES[d]] = Free
    /\ response' = [op |-> "snapshot", drone |-> "", code |-> 200,
                    order_id |-> 0,
                    drones |-> {d \in DroneIds :
                                   /\ DRONES[d] # NoLink
                                   /\ is_connected[DRONES[d]]}]
    /\ UNCHANGED <<DRONES, is_connected, nlinks, created_for, vehicle_open,
                   notRegistry>>

\* websocket_endpoint, one pass of the loop of a connected client: under
\* DRONE_LOCK, get_status() of every drone of DRONES whose link has
\* is_connected set; the status_update message with these entries is
\* sent, and the loop sleeps 2 s.
StatusSnapshot ==
    /\ response' = [op |-> "snapshot", drone |-> "", code |-> 200,
                    order_id |-> 0,
                    drones |-> {d \in DroneIds :
                                   /\ DRONES[d] # NoLink
                                   /\ is_connected[DRONES[d]]}]
    /\ UNCHANGED <<DRONES, is_connected, nlinks, created_for, vehicle_open,
                   notRegistry>>

\* The answers kept while the registry is exercised: every poll ends at
\* once or after one more pass.
RegistryInputs ==
    [modes |-> {"GUIDED", "LAND"}, armed |-> BOOLEAN, rearmed |-> {TRUE},
     alts |-> {5, 380}, landing |-> {5}, dists |-> {99}, waits |-> {0},
     frames |-> {"relative"}, servo |-> {2}, db |-> {TRUE},
     late |-> {FALSE}, patience |-> 0, notify |-> {TRUE}, api |-> {TRUE}]

Closings == {"closed", "raised"}

\* The handlers of the API and the mission threads they start.
RegistryNext ==
    \/ Launch(MaxFlights)
    \/ \E d \in MissionDrones, block \in RequestBlocks :
           LaunchInvalidBlock(d, block)
    \/ \E d \in MissionDrones : ConnectInvalid(d)
    \/ \E d \in MissionDrones, closing \in Closings, ok \in BOOLEAN :
           ConnectDrone(d, closing, ok)
    \/ \E d \in MissionDrones, closing \in Closings : DisconnectDrone(d, closing)
    \/ \E d \in MissionDrones : GetDroneStatus(d)
    \/ StatusSnapshot
    \/ \E m \in Missions : Mission(m, RegistryInputs)

RegistrySpec == Init /\ [][RegistryNext]_vars

\* ------------------------------------ ConnectionManager / events.py
Range(seq) == {seq[i] : i \in DOMAIN seq}

\* list.remove(conn) for every conn of dead that is still in the list
WithoutDead(list, dead) == SelectSeq(list, LAMBDA c : c \notin dead)

\* ConnectionManager.connect: accept the socket and append it to the list.
WsConnect(s) ==
    /\ s \notin accepted
    /\ accepted' = accepted \cup {s}
    /\ active_connections' = Append(active_connections, s)
    /\ UNCHANGED <<missionVars, closed, bcast, received>>

\* The peer of an accepted socket goes away: every later send to it raises.
PeerCloses(s) ==
    /\ s \in accepted \ closed
    /\ closed' = closed \cup {s}
    /\ UNCHANGED <<missionVars, active_connections, accepted, bcast, received>>

\* broadcast() is called: disconnected = []; the for loop takes the first
\* connection of the list and awaits the send to it. With an empty list
\* the call is over at once.
BroadcastCall(b) ==
    /\ bcast[b].pc = "idle"
    /\ bcast' = [bcast EXCEPT ![b] =
           IF active_connections = <<>>
           THEN [NotCalled EXCEPT !.pc = "done"]
           ELSE [pc |-> "sending", index |-> 1,
                 connection |-> active_connections[1],
                 disconnected |-> {},
                 audience |-> Range(active_connections)]]
    /\ UNCHANGED <<missionVars, active_connections, accepted, closed,
                   received>>

\* The awaited send returns or raises (the connection is then marked for
\* removal); the loop takes the connection at the next index of the list
\* as it is now, or, past its end, removes the marked connections that
\* are still in the list and returns.
BroadcastSend(b) ==
    LET c == bcast[b].connection
        ok == c \notin closed
        dead == IF ok THEN bcast[b].disconnected
                ELSE bcast[b].disconnected \cup {c}
        next == bcast[b].index + 1
    IN /\ bcast[b].pc = "sending"
       /\ received' = IF ok THEN [received EXCEPT ![c] = @ \cup {b}]
                      ELSE received
       /\ IF next <= Len(active_connections)
          THEN /\ bcast' = [bcast EXCEPT ![b].index = next,
                                         ![b].connection =
                                             active_connections[next],
                                         ![b].disconnected = dead]
               /\ UNCHANGED active_connections
          ELSE /\ bcast' = [bcast EXCEPT ![b].pc = "done",
                                         ![b].disconnected = dead]
               /\ active_connections' =
                      WithoutDead(active_connections, dead)
       /\ UNCHANGED <<missionVars, accepted, closed>>

\* Clients connect and their peers go away while broadcasts run, each on
\* its own thread (main.py) or interleaved at its awaits (events.py).
\* The disconnect of a client by its own handler is left out, so that the
\* list shrinks only by the removal of subscribers whose send failed.
BroadcastNext ==
    \/ \E s \in Sockets : WsConnect(s)
    \/ \E s \in Sockets : PeerCloses(s)
    \/ \E b \in Broadcasts : BroadcastCall(b)
    \/ \E b \in Broadcasts : BroadcastSend(b)

BroadcastSpec == Init /\ [][BroadcastNext]_vars

\* A cooperative link and a working database: no call raises, both servo
\* commands go out, and every poll is eventually answered with the value
\* that ends it (Advance is the step of a mission that leaves its label).
CoopInputs ==
    [modes |-> Modes, armed |-> BOOLEAN, rearmed |-> {TRUE},
     alts |-> AltReadings, landing |-> LandingReadings,
     dists |-> DistReadings, waits |-> 0..MODE_RESET_WAIT_S,
     frames |-> {"relative", "global"}, servo |-> {2}, db |-> {TRUE},
     late |-> BOOLEAN, patience |-> 0, notify |-> {TRUE}, api |-> {TRUE}]

Advance(m) == Flight(m, CoopInputs) /\ th'[m].pc # th[m].pc

CoopNext ==
    \/ Launch(MaxFlights)
    \/ \E m \in Missions : Flight(m, CoopInputs)

CoopSpec ==
    Init /\ [][CoopNext]_vars /\ \A m \in Missions : WF_vars(Advance(m))

\* Several missions queued on one drone, on a link that ends every poll
\* sooner or later but may raise at any time.
QueueInputs ==
    [modes |-> {"GUIDED", "LAND"}, armed |-> BOOLEAN, rearmed |-> {TRUE},
     alts |-> {5, 380}, landing |-> {5}, dists |-> {99, 102},
     waits |-> {0}, frames |-> {"relative"}, servo |-> {2}, db |-> {TRUE},
     late |-> {FALSE}, patience |-> 0, notify |-> {TRUE}, api |-> {TRUE}]

QueueAdvance(m) == Flight(m, QueueInputs) /\ th'[m].pc # th[m].pc

QueueNext ==
    \/ Launch(MaxMissions)
    \/ \E m \in Missions : Mission(m, QueueInputs)

QueueSpec ==
    Init /\ [][QueueNext]_vars /\ \A m \in Missions : WF_vars(QueueAdvance(m))

\* A cooperative link and a working database again, with one answer that
\* ends each poll and one that does not, while the notifications (the two
\* callbacks and the PATCH to the Orders service) may fail.
NotifyInputs ==
    [modes |-> {"GUIDED", "LAND"}, armed |-> BOOLEAN, rearmed |-> {TRUE},
     alts |-> {5, 380}, landing |-> {5}, dists |-> {99, 102},
     waits |-> {0}, frames |-> {"relative"}, servo |-> {2}, db |-> {TRUE},
     late |-> {FALSE}, patience |-> 0, notify |-> BOOLEAN, api |-> BOOLEAN]

NotifyAdvance(m) == Flight(m, NotifyInputs) /\ th'[m].pc # th[m].pc

NotifyNext ==
    \/ Launch(MaxFlights)
    \/ \E m \in Missions : Flight(m, NotifyInputs)

NotifySpec ==
    Init /\ [][NotifyNext]_vars /\ \A m \in Missions : WF_vars(NotifyAdvance(m))

\* ------------------------------------------------------------- claims
Started(m) == th[m].pc \notin {"idle"}

\* perform_delivery of mission m has not returned yet
Flying(m) == th[m].pc \notin {"idle", "m_complete", "done"}

\* mission m has sent a command and its command sequence is not over
InSequence(m) == m \in issued /\ Flying(m)

Count(seq, e) == Cardinality({i \in DOMAIN seq : seq[i] = e})

Last(seq) == seq[Len(seq)]

\* labels of goto_location after the outbound navigation loop
AfterOutbound ==
    {"dl_land_mode", "dl_descend", "dl_poll", "ld_land", "ld_wait_land",
     "ld_disarm", "pr_servo", "pr_wait_disarm", "pr_delivered",
     "ra_set_guided", "ra_arm", "ra_wait_armed", "ra_takeoff", "ra_climb",
     "rt_wait_guided", "rt_goto", "rt_nav", "lh_land", "lh_wait_disarm"}

\* C1: two missions launched on the same link never have their command
\* sequences interleaved: while one mission is between its first command
\* and the end of its sequence, no other mission of that link has sent a
\* command and is still in its own sequence.
C1_NoInterleaving ==
    \A a, b \in Missions :
        (a # b /\ th[a].drone = th[b].drone) =>
            ~(InSequence(a) /\ InSequence(b))

\* C2: a mission whose state machine ended with an error (perform_delivery
\* did not run to the final landing) is recorded FAILED and publishes
\* mission_failed, never COMPLETED or mission_completed.
C2_ErrorMarksFailed ==
    \A m \in Missions :
        (th[m].pc = "done" /\ ~th[m].returned) =>
            /\ orders[m].status = "FAILED"
            /\ events[m] # << >>
            /\ Last(events[m]) = "mission_failed"
            /\ Count(events[m], "mission_completed") = 0

\* C3: a row is COMPLETED, and mission_completed published, only when the
\* state machine finished the round trip (disarmed observed at the end of
\* the return leg).
C3_CompletedOnlyAfterReturn ==
    \A m \in Missions :
        (\/ orders[m].status = "COMPLETED"
         \/ Count(events[m], "mission_completed") > 0) => th[m].returned

\* C4: a mission that completed the outbound navigation has published
\* arrived_at_block exactly once, no mission publishes it twice, and an
\* order_delivered of the mission comes after its arrived_at_block.
C4_ArrivedOnceBeforeDelivered ==
    \A m \in Missions :
        /\ Count(events[m], "arrived_at_block") <= 1
        /\ th[m].pc \in AfterOutbound =>
               Count(events[m], "arrived_at_block") = 1
        /\ \A i \in DOMAIN events[m] :
               events[m][i] = "order_delivered" =>
                   \E j \in 1..(i - 1) : events[m][j] = "arrived_at_block"

C4_Witness ==
    \E m \in Missions :
        events[m] = <<"arrived_at_block", "order_delivered">>

StatusOf(m) == orders[m].status

Terminal == {"COMPLETED", "FAILED"}

\* the status changes the claim names
ClaimedMoves ==
    {<<"NONE", "IN_PROGRESS">>, <<"IN_PROGRESS", "DELIVERED">>,
     <<"IN_PROGRESS", "COMPLETED">>, <<"DELIVERED", "COMPLETED">>,
     <<"IN_PROGRESS", "FAILED">>}

C7_CompletedAtIffTerminal ==
    \A m \in Missions :
        orders[m] # NoOrder =>
            (orders[m].completed_at <=> StatusOf(m) \in Terminal)

\* C8 as stated: a leg whose polls find no progress reissues the goto at
\* least once in every 3 s, so no 3 polls in a row pass without a reissue.
\* (It fails when the polls come exactly one second apart.)
C8_ReissuedEveryThreeSeconds ==
    \A m \in Missions : th[m].quiet < REISSUE_AFTER_S

\* C8: a leg whose polls (1 s apart) find no progress reissues the goto
\* once more than 3 s have passed since the last goto: at most 3 polls in
\* a row find no progress without a reissue, so every 4 s of standstill
\* hold a reissue.
C8_ReissuedAfterThreeSeconds ==
    \A m \in Missions : th[m].quiet <= REISSUE_AFTER_S

C8_Witness ==
    \E m \in Missions :
        /\ th[m].pc \in {"nav", "rt_nav"}
        /\ th[m].reissued
        /\ th[m].quiet = REISSUE_AFTER_S

\* C9: in the disarm wait after landing, when the altitude read while
\* still armed is below 0.3 m, the pass has sent a disarm command,
\* whether or not LAND had been accepted.
C9_NearGroundDisarm ==
    \A m \in Missions :
        (/\ At(m, "ld_disarm")
         /\ th[m].alt_now # None
         /\ th[m].alt_now < NEAR_GROUND_ALT) =>
            lastCmd[th[m].drone] = [by |-> m, cmd |-> "disarm"]

C9_Witness ==
    \E m \in Missions :
        /\ At(m, "ld_disarm")
        /\ ~th[m].land_accepted
        /\ th[m].alt_now = NEAR_GROUND_ALT - 1
        /\ lastCmd[th[m].drone] = [by |-> m, cmd |-> "disarm"]

RoundTripEvents ==
    <<"arrived_at_block", "order_delivered", "mission_completed">>

\* C5: with a cooperative link, a launched mission eventually has published
\* arrived_at_block, order_delivered and mission_completed, in that order
\* and nothing else, and its record ends COMPLETED.
C5_CooperativeCompletes ==
    \A m \in Missions :
        At(m, "aat_enter") ~>
            (/\ At(m, "done")
             /\ events[m] = RoundTripEvents
             /\ StatusOf(m) = "COMPLETED")

C5_Witness ==
    \E m \in Missions :
        /\ At(m, "done")
        /\ th[m].returned
        /\ events[m] = RoundTripEvents
        /\ StatusOf(m) = "COMPLETED"

\* C10: a broadcast that has returned has sent its message to every
\* subscriber that was in the list when it was called and whose socket
\* takes sends, whatever sends to other subscribers failed; and the
\* subscribers whose send failed are no longer in the list.
C10_FailureSparesOthers ==
    \A b \in Broadcasts :
        bcast[b].pc = "done" =>
            /\ \A s \in bcast[b].audience \ closed : b \in received[s]
            /\ bcast[b].disconnected \cap Range(active_connections) = {}

\* the labels of the arming phase of arm_and_takeoff
ArmingLabels == {"aat_wait_mode", "aat_wait_armed", "aat_arm_timeout"}

\* C20: arming is bounded: no wait of the arming phase (for GUIDED, for
\* armed) lasts longer than about 45 s; it ends with the arming timeout.
C20_ArmingBounded ==
    \A m \in Missions :
        th[m].pc \in ArmingLabels => th[m].timer <= ARM_TIMEOUT_S + 1

\* labels at which the thread has just left a navigation loop normally
PastNavLoop == AfterOutbound \ {"rt_nav"}

\* labels up to and inside the outbound navigation loop
BeforeArrival ==
    {"idle", "aat_enter", "aat_set_guided", "aat_wait_mode", "aat_arm",
     "aat_wait_armed", "aat_set_home", "aat_arm_timeout", "aat_takeoff",
     "aat_climb", "gl_enter", "gl_save_home", "gl_wait_guided", "gl_goto",
     "nav"}

\* C19: a navigation loop is left, and arrived_at_block published, only
\* by a pass whose computed distance is below the proximity threshold,
\* whatever reissues and mode resets came before.
C19_NoFalseArrival ==
    \A m \in Missions :
        /\ th[m].exit_distance # None => th[m].exit_distance < PROXIMITY
        /\ th[m].pc \in PastNavLoop => th[m].exit_distance # None
        /\ Count(events[m], "arrived_at_block") > 0 =>
               th[m].pc \notin BeforeArrival

C19_Witness ==
    \E m \in Missions :
        /\ At(m, "dl_land_mode")
        /\ th[m].exit_distance = PROXIMITY - 1
        /\ lastCmd[th[m].drone] = [by |-> m, cmd |-> "mode_guided"]
        /\ events[m] = <<"arrived_at_block">>

\* labels of goto_location after the home has been saved
AfterSaveHome == {"gl_wait_guided", "gl_goto", "nav"} \cup AfterOutbound

\* C17: once an outbound leg has begun, the saved home of the link is
\* the position the vehicle reported to this mission, and when no position
\* could be read it is the static HOME_LOCATION.
C17_HomeFromPositionOrStatic ==
    \A m \in Missions :
        /\ th[m].pc \in AfterSaveHome =>
               /\ home_location[th[m].drone].by = m
               /\ home_location[th[m].drone].from \in {"relative", "global"}
        /\ th[m].sm_error = "no position" =>
               home_location[th[m].drone] = [by |-> m, from |-> "static"]

\* mission m is inside the with self.lock block of arm_and_takeoff or of
\* goto_location
Inside(m) ==
    th[m].pc \notin {"idle", "aat_enter", "gl_enter", "m_complete", "done"}

\* C12: a mission inside a flight-affecting operation holds the lock of
\* its link from the first to the last statement of the operation, every
\* command on a link is sent by the holder of its lock, and so no two
\* missions are inside an operation on the same link.
C12_OneExecutionPerLink ==
    /\ \A m \in Missions : Inside(m) => lock[th[m].drone] = m
    /\ \A l \in Links : lastCmd[l] # NoCmd => lock[l] = lastCmd[l].by
    /\ \A a, b \in Missions :
           (a # b /\ th[a].drone = th[b].drone) => ~(Inside(a) /\ Inside(b))

C12_Witness ==
    \E a, b \in Missions :
        /\ a # b /\ th[a].drone = th[b].drone
        /\ At(a, "nav") /\ lastCmd[th[a].drone] = [by |-> a, cmd |-> "goto"]
        /\ At(b, "aat_enter")

\* the links created for drone id d whose connection is open
OpenFor(d) == {l \in Links : created_for[l] = d /\ vehicle_open[l]}

\* C11: a drone id maps to at most one link, which was created for it;
\* every other link ever created for the id is closed, so at most one of
\* them is open, and a replaced link was closed before its successor was
\* installed.
C11_OneOpenLinkPerDrone ==
    \A d \in DroneIds :
        /\ DRONES[d] # NoLink => created_for[DRONES[d]] = d
        /\ \A l \in OpenFor(d) : DRONES[d] = l
        /\ Cardinality(OpenFor(d)) <= 1

C11_Witness ==
    \E d \in DroneIds, old, new \in Links :
        /\ old # new /\ created_for[old] = d /\ created_for[new] = d
        /\ DRONES[d] = new /\ vehicle_open[new]
        /\ ~vehicle_open[old] /\ ~is_connected[old]
        /\ response = [op |-> "connect", drone |-> d, code |-> 200,
                       order_id |-> 0,
                       drones |-> {}]

\* C13: no step closes a link, or replaces it in the registry, while a
\* mission holds the command lock of that link.
C13_ReconnectWaitsForMission ==
    [][\A l \in Links :
           lock[l] # Free =>
               /\ is_connected[l] => is_connected'[l]
               /\ vehicle_open[l] => vehicle_open'[l]
               /\ \A d \in DroneIds : DRONES[d] = l => DRONES'[d] = l]_vars

\* the request answered by this step
Answered(op, code) ==
    /\ response' # response
    /\ response'.op = op
    /\ response'.code = code

\* C14: a launch answered 500 was for an unregistered id, leaves the id
\* unregistered, inserts no order row and starts no mission thread.
C14_FailedConnectLeavesNothing ==
    [][Answered("launch", 500) =>
           /\ DRONES[response'.drone] = NoLink
           /\ DRONES'[response'.drone] = NoLink
           /\ UNCHANGED <<DRONES, nlinks, orders, th, events>>]_vars

C14_Witness ==
    /\ response = [op |-> "launch", drone |-> "D1", code |-> 500,
                   order_id |-> 0,
                       drones |-> {}]
    /\ DRONES["D1"] = NoLink
    /\ nlinks > 0

\* C16: a launch answered 400 changed nothing: the registry, the links,
\* the order rows, the mission threads and the locks are as before.
C16_InvalidBlockNoEffect ==
    [][Answered("launch", 400) =>
           UNCHANGED <<DRONES, is_connected, nlinks, created_for,
                       vehicle_open, orders, th, lock, events>>]_vars

C16_Witness ==
    /\ response = [op |-> "launch", drone |-> "D1", code |-> 400,
                   order_id |-> 0,
                       drones |-> {}]
    /\ DRONES["D1"] = NoLink
    /\ \A m \in Missions : orders[m] = NoOrder /\ At(m, "idle")

\* C18: a remove of a registered id closes its link and deletes the entry,
\* a remove of an absent id answers 404 and leaves the registry alone, and
\* a status request answers 404 exactly when the id is absent.
C18_RemoveClosesAndDeletes ==
    [][/\ \A d \in DroneIds :
              (response' # response /\ response'.op = "remove"
                  /\ response'.drone = d) =>
                  IF DRONES[d] # NoLink
                  THEN /\ DRONES'[d] = NoLink
                       /\ ~is_connected'[DRONES[d]]
                       /\ ~vehicle_open'[DRONES[d]]
                  ELSE /\ response'.code = 404
                       /\ UNCHANGED <<DRONES, is_connected, vehicle_open>>
       /\ (response' # response /\ response'.op = "status") =>
              (response'.code = 404 <=> DRONES[response'.drone] = NoLink)
      ]_vars

\* a launch of d can be accepted: an order id and, for an unregistered id,
\* a link are left within the bounds
Launchable(d) ==
    /\ NextOrderId \in Missions /\ NextOrderId <= MaxMissions
    /\ DRONES[d] # NoLink \/ nlinks < MaxLinks

\* C15: a launch for a known block is answered whatever the mission
\* threads are doing, in particular while a mission holds the lock of the
\* link of the same drone; the step that answers it takes no link lock and
\* leaves the new mission thread before its first statement.
C15_LaunchNeverWaits ==
    /\ [](\A d \in MissionDrones :
             Launchable(d) => ENABLED LaunchMission(d, "A", MaxMissions))
    /\ [][Answered("launch", 200) =>
              /\ UNCHANGED lock
              /\ th'[response'.order_id].pc = "aat_enter"]_vars

C15_Witness ==
    \E m \in Missions :
        /\ response = [op |-> "launch", drone |-> "D1", code |-> 200,
                       order_id |-> m,
                       drones |-> {}]
        /\ At(m, "aat_enter")
        /\ lock[th[m].drone] \in Missions \ {m}

\* mission m has sent command c on its link and nothing since
Sent(m, c) ==
    /\ th[m].drone # NoLink
    /\ lastCmd[th[m].drone] = [by |-> m, cmd |-> c]

\* mission m sends command c in this step
Sends(m, c) ==
    /\ th[m].drone # NoLink
    /\ lastCmd'[th[m].drone] = [by |-> m, cmd |-> c]
    /\ lastCmd'[th[m].drone] # lastCmd[th[m].drone]

\* labels at which LAND has been commanded after a completed descent
AfterDescent == {"ld_wait_land", "ld_disarm", "lh_wait_disarm"}

\* C22: landing mode is commanded only after the descent has completed:
\* a mission whose last command is LAND stands after the descent loop,
\* never before the descent goto.
C22_LandOnlyAfterDescent ==
    \A m \in Missions : Sent(m, "mode_land") => th[m].pc \in AfterDescent

\* perform_delivery of mission m has ended on an exception
Failed(m) ==
    \/ th[m].sm_error # "none"
    \/ th[m].pc = "done" /\ ~th[m].returned

\* C23: a mission whose state machine failed stands after
\* perform_delivery, holds no lock, and never again sends a command or
\* goes back into a state of the state machine.
C23_FailureEndsCommands ==
    /\ [](\A m \in Missions :
             Failed(m) =>
                 /\ th[m].pc \in {"m_complete", "done"}
                 /\ \A l \in Links : lock[l] # m /\ lastCmd[l].by # m)
    /\ [][\A m \in Missions :
              th[m].pc \in {"m_complete", "done"} =>
                  /\ th'[m].pc \in {"m_complete", "done"}
                  /\ \A l \in Links : lastCmd'[l].by # m]_vars

C23_Witness ==
    \E m \in Missions :
        /\ At(m, "done") /\ ~th[m].returned
        /\ m \in issued
        /\ events[m] = <<"arrived_at_block", "mission_completed">>

\* the clock of the last goto after a pass that did not reissue it
NotReset(since) ==
    IF since < REISSUE_AFTER_S THEN since + 1 ELSE REISSUE_AFTER_S + 1

\* C26: a pass of a navigation loop that forces GUIDED again stays in the
\* loop (unless the vehicle has arrived), and leaves the time since the
\* last goto running and the previous distance set: neither is reset.
C26_ModeRecoveryKeepsTimers ==
    [][\A m \in Missions :
          (th[m].pc \in {"nav", "rt_nav"} /\ Sends(m, "mode_guided")) =>
              \/ th'[m].exit_distance # None
              \/ /\ th'[m].pc = th[m].pc
                 /\ th'[m].since >= NotReset(th[m].since)
                 /\ th'[m].last_distance # None
                 /\ th'[m].reissued = th[m].reissued]_vars

C26_Witness ==
    \E m \in Missions :
        /\ At(m, "rt_nav") /\ Sent(m, "mode_guided")
        /\ th[m].since = REISSUE_AFTER_S + 1
        /\ th[m].last_distance # None
        /\ ~th[m].reissued

\* C21: the landing at home is the landing at the destination: in the
\* disarm wait at home, when the vehicle is below 0.3 m and still armed,
\* the pass has sent the fallback disarm command.
C21_HomeLandingAsDestination ==
    \A m \in Missions :
        (At(m, "lh_wait_disarm") /\ NearGround(th[m].home_alt)) =>
            Sent(m, "disarm")

\* C27: in the first arming and in the re-arming alike, arm is sent only
\* once a wait loop has read the mode as GUIDED after it was commanded,
\* and takeoff only once a wait loop has read the vehicle as armed.
C27_RearmPollsLikeArming ==
    [][\A m \in Missions :
          /\ Sends(m, "arm") => th[m].confirmed = "guided"
          /\ Sends(m, "takeoff") => th[m].confirmed = "armed"]_vars

\* the polling loops after arming that have no timeout, each with the
\* label its thread goes to when the loop ends
PollExit ==
    [l \in {"aat_climb", "nav", "dl_poll", "ld_disarm", "pr_wait_disarm",
            "ra_wait_armed", "ra_climb", "rt_nav", "lh_wait_disarm"} |->
        CASE l = "aat_climb" -> "gl_enter"
          [] l = "nav" -> "dl_land_mode"
          [] l = "dl_poll" -> "ld_land"
          [] l = "ld_disarm" -> "pr_servo"
          [] l = "pr_wait_disarm" -> "pr_delivered"
          [] l = "ra_wait_armed" -> "ra_takeoff"
          [] l = "ra_climb" -> "rt_wait_guided"
          [] l = "rt_nav" -> "lh_land"
          [] l = "lh_wait_disarm" -> "m_complete"]

\* the reading kept by the pass that ended loop l satisfies its condition
Satisfied(l, t) ==
    /\ l \in {"aat_climb", "ra_climb"} => t.exit_alt >= TAKEOFF_ALT
    /\ l \in {"nav", "rt_nav"} =>
           t.exit_distance # None /\ t.exit_distance < PROXIMITY
    /\ l = "lh_wait_disarm" => t.returned

\* C28: a mission inside a polling loop holds the lock of its link, its
\* record is not terminal and neither mission_completed nor
\* mission_failed is published; no timeout ends a loop: it is left only
\* by a pass that read the condition as satisfied, or by an exception of
\* the link.
C28_PollingNeverTimesOut ==
    /\ [](\A m \in Missions :
             th[m].pc \in DOMAIN PollExit =>
                 /\ lock[th[m].drone] = m
                 /\ StatusOf(m) \in {"IN_PROGRESS", "DELIVERED"}
                 /\ Count(events[m], "mission_completed") = 0
                 /\ Count(events[m], "mission_failed") = 0)
    /\ [][\A m \in Missions :
              (th[m].pc \in DOMAIN PollExit /\ th'[m].pc # th[m].pc) =>
                  \/ /\ th'[m].pc = PollExit[th[m].pc]
                     /\ Satisfied(th[m].pc, th'[m])
                  \/ th'[m].sm_error = "link error"]_vars

C28_Witness ==
    \E m \in Missions :
        /\ At(m, "nav") /\ lock[th[m].drone] = m
        /\ th[m].last_distance # None /\ th[m].last_distance > PROXIMITY
        /\ th[m].quiet = REISSUE_AFTER_S
        /\ StatusOf(m) = "IN_PROGRESS" /\ events[m] = << >>

\* labels of goto_location after the delivered callback
AfterRelease ==
    {"ra_set_guided", "ra_arm", "ra_wait_armed", "ra_takeoff", "ra_climb",
     "rt_wait_guided", "rt_goto", "rt_nav", "lh_land", "lh_wait_disarm"}

\* mission m records the delivery or hands order_delivered over in this
\* step
Delivers(m) ==
    \/ Count(events'[m], "order_delivered") >
           Count(events[m], "order_delivered")
    \/ StatusOf(m)' = "DELIVERED" /\ StatusOf(m) # "DELIVERED"

\* C24: the release never ends the mission: from the servo commands the
\* thread goes on to the disarm wait and from the callback to the
\* re-arming, whether or not the release succeeded; a release in which no
\* servo command went out is not a success; and the row becomes DELIVERED
\* and order_delivered is handed over only by the callback of a mission
\* whose release succeeded.
C24_FailedReleaseGoesOn ==
    /\ [][\A m \in Missions :
              /\ (At(m, "pr_servo") /\ th'[m] # th[m]) =>
                     /\ th'[m].pc = "pr_wait_disarm"
                     /\ th'[m].payload_dropped => Sends(m, "servo")
              /\ (At(m, "pr_delivered") /\ th'[m] # th[m]) =>
                     th'[m].pc = "ra_set_guided"
              /\ Delivers(m) =>
                     At(m, "pr_delivered") /\ th[m].payload_dropped]_vars
    /\ [](\A m \in Missions :
             (th[m].pc \in AfterRelease /\ ~th[m].payload_dropped) =>
                 /\ Count(events[m], "order_delivered") = 0
                 /\ StatusOf(m) = "IN_PROGRESS")

C24_Witness ==
    \E m \in Missions :
        /\ At(m, "rt_nav") /\ Sent(m, "goto_home")
        /\ ~th[m].payload_dropped
        /\ events[m] = <<"arrived_at_block">>
        /\ StatusOf(m) = "IN_PROGRESS"

\* C25: the step in which a notification fails (the arrived callback,
\* the PATCH to the Orders service, the delivered callback) takes the
\* thread where the successful step takes it, with the lock kept and no
\* error raised, and order_delivered is handed over all the same; a
\* mission with a failed notification goes on to the end of the round
\* trip, with the events and the COMPLETED record of a mission without.
C25_NotificationFailureHarmless ==
    /\ [][\A m \in Missions :
              (th'[m].notify_failed # th[m].notify_failed
                  /\ th[m].pc \in {"nav", "pr_delivered"}) =>
                  /\ th[m].pc = "nav" =>
                         /\ th'[m].pc = "dl_land_mode"
                         /\ events'[m] = <<"arrived_at_block">>
                  /\ th[m].pc = "pr_delivered" =>
                         /\ th'[m].pc = "ra_set_guided"
                         /\ events'[m] =
                                <<"arrived_at_block", "order_delivered">>
                  /\ th'[m].sm_error = "none"
                  /\ lock'[th[m].drone] = m]_vars
    /\ \A m \in Missions :
           (th[m].notify_failed # {}) ~>
               (/\ At(m, "done") /\ th[m].returned
                /\ events[m] = RoundTripEvents
                /\ StatusOf(m) = "COMPLETED")

C25_Witness ==
    \E m \in Missions :
        /\ At(m, "done") /\ th[m].returned
        /\ th[m].notify_failed = {"arrived", "orders_api", "delivered"}
        /\ events[m] = RoundTripEvents
        /\ StatusOf(m) = "COMPLETED"

\* a status read is answered in this step
StatusRead ==
    /\ response' # response
    /\ response'.op \in {"status", "snapshot"}

\* C29: a status request and a pass of the status loop can always be
\* taken, whoever holds the lock of a link, and the step takes no lock and
\* leaves the mission threads and their commands alone.
C29_StatusNeverWaits ==
    /\ [](/\ ENABLED StatusSnapshot
          /\ \A d \in MissionDrones : ENABLED GetDroneStatus(d))
    /\ [][StatusRead => UNCHANGED <<lock, th, lastCmd, issued>>]_vars

C29_Witness ==
    \E m \in Missions :
        /\ DRONES["D1"] # NoLink /\ lock[DRONES["D1"]] = m
        /\ Sent(m, "takeoff")
        /\ response.op = "snapshot" /\ response.drones = {"D1"}

\* C30: the entries of a status snapshot are the drone ids registered at
\* the moment it is taken.
C30_SnapshotCoversRegistry ==
    [][(response' # response /\ response'.op = "snapshot") =>
           response'.drones = {d \in DroneIds : DRONES[d] # NoLink}]_vars

\* the launch handler starts the thread of mission m in this step
Starts(m) == th[m].pc = "idle" /\ th'[m].pc = "aat_enter"

\* C31: the link on which a launch starts a mission has is_connected set
\* (a mission is only started on an open link).
C31_MissionOnOpenLink ==
    [][\A m \in Missions : Starts(m) => is_connected'[th'[m].drone]]_vars

\* C32: a servo command is sent only by a mission whose disarm wait after
\* the destination landing has read armed = false, with no command of the
\* mission since that reading; the servo is never commanded from any other
\* place of the mission.
C32_ServoOnlyWhenDisarmed ==
    [][\A m \in Missions :
          Sends(m, "servo") =>
              /\ th[m].pc = "pr_servo"
              /\ th[m].confirmed = "disarmed"
              /\ Sent(m, "mode_land") \/ Sent(m, "disarm")]_vars

C32_Witness ==
    \E m \in Missions :
        /\ Sent(m, "servo")
        /\ th[m].pc = "pr_wait_disarm"
        /\ th[m].payload_dropped

\* a step of a handler or of the status loop inside `with DRONE_LOCK`
UnderDroneLock ==
    /\ response' # response
    /\ response'.op \in {"launch", "connect", "remove", "snapshot"}
    /\ response'.code # 400

\* a step of the thread of a started mission
ThreadStep(m) == th[m].pc # "idle" /\ th'[m] # th[m]

\* C33: a step taken under DRONE_LOCK takes no link lock and waits for none
\* (remove, failed connect and the status loop can be taken whoever holds
\* a link lock); the thread holding a link lock can always take its next
\* step, and the steps of a thread leave the registry alone. So neither
\* lock is waited for while the other is held.
C33_LocksNeverNested ==
    /\ [][UnderDroneLock => lock' = lock]_vars
    /\ [](/\ ENABLED StatusSnapshot
          /\ \A d \in MissionDrones :
                 /\ ENABLED ConnectDrone(d, "closed", FALSE)
                 /\ \A closing \in Closings :
                        ENABLED DisconnectDrone(d, closing))
    /\ [](\A l \in Links :
              lock[l] # Free => ENABLED Flight(lock[l], RegistryInputs))
    /\ [][\A m \in Missions :
              ThreadStep(m) => UNCHANGED <<DRONES, is_connected, nlinks,
                                          created_for, vehicle_open>>]_vars

C33_Witness ==
    \E m \in Missions :
        /\ th[m].drone # NoLink /\ lock[th[m].drone] = m
        /\ Sent(m, "goto")
        /\ response.op = "remove" /\ response.code = 200
        /\ ~is_connected[th[m].drone]

\* mission m waits for the lock of its link
Queued(m) == th[m].pc \in {"aat_enter", "gl_enter"}

\* C34: a mission outside a flight-affecting operation, whether it left it
\* normally or by an exception, holds no lock, so a mission whose row is
\* terminal holds none; and a mission waiting for the lock of a link on
\* which another mission is terminal eventually holds it.
C34_LockReleasedOnEveryExit ==
    /\ [](\A m \in Missions : \A l \in Links :
              (~Inside(m) \/ StatusOf(m) \in Terminal) => lock[l] # m)
    /\ \A b \in Missions :
           (/\ Queued(b)
            /\ \E a \in Missions \ {b} :
                   th[a].drone = th[b].drone /\ StatusOf(a) \in Terminal)
               ~> (th[b].drone # NoLink /\ lock[th[b].drone] = b)

C34_Witness ==
    \E a, b \in Missions :
        /\ a # b /\ th[a].drone = th[b].drone
        /\ StatusOf(a) \in Terminal /\ th[a].sm_error = "none"
        /\ events[a] = <<"mission_completed">>
        /\ th[b].pc = "gl_save_home" /\ lock[th[b].drone] = b

\* C35: from the snapshot of the home at the start of goto_location to the
\* end of the operation, the saved home of the link is the one this
\* mission saved, and the target of its return leg is that home.
C35_ReturnsToOwnHome ==
    \A m \in Missions :
        /\ (Inside(m) /\ th[m].pc \in AfterSaveHome) =>
               home_location[th[m].drone].by = m
        /\ th[m].home_target # NoHome => th[m].home_target.by = m

C35_Witness ==
    \E a, b \in Missions :
        /\ a # b /\ th[a].drone = th[b].drone
        /\ At(b, "rt_nav") /\ th[b].home_target.by = b
        /\ home_location[th[b].drone].by = b
        /\ At(a, "gl_enter")

TerminalEvents == {"mission_completed", "mission_failed"}

\* C36: the thread of a mission that has ended has published exactly one
\* of mission_completed and mission_failed, and that event is the last one
\* it published.
C36_OneTerminalEvent ==
    \A m \in Missions :
        /\ Count(events[m], "mission_completed")
               + Count(events[m], "mission_failed") <= 1
        /\ \A i \in DOMAIN events[m] :
               events[m][i] \in TerminalEvents => i = Len(events[m])
        /\ At(m, "done") =>
               /\ events[m] # <<>>
               /\ Last(events[m]) \in TerminalEvents

====
